---- MODULE Spec2Model ----
(***************************************************************************)
(* Recurring-session scheduler of the mcti dashboard: the schedule         *)
(* manager view (ScheduleManagement, in its one-record-per-request and its *)
(* one-record-per-day builds) and the teacher's own schedule view          *)
(* (ApproveScheduleManagement), all writing to the Firestore collection    *)
(* 'schedules' and all reading it through a delayed live listener.         *)
(*                                                                         *)
(* Data representation.  A time string "HH:MM" of an <input type="time">   *)
(* is the pair <<HH, MM>>, the empty string of an untouched time input is  *)
(* <<>>.  Identifiers, rooms and weekday tags are strings, "" when unset.  *)
(* A days array is a sequence of tags.  A document list (snapshot.docs,    *)
(* the schedules state) is a sequence of records in document-id order.     *)
(***************************************************************************)
EXTENDS Integers, Sequences, FiniteSets, TLC

\* ------------------------------------------------------------------ bounds

\* Documents the store ever creates (auto-ids 1..MaxIds).
MaxIds == 2
\* Store writes (addDoc, updateDoc, deleteDoc) in one behaviour.
MaxWrites == 2
\* Snapshots a client may hold in unexpired 500 ms timers.
MaxPending == 1
\* Existing sessions handed to the conflict check in the detector harness.
MaxExisting == 2
MaxClockDay == 8

\* ------------------------------------------------------------- input sets

Teachers == {"T1", "T2"}
Rooms == {"R1", "R2"}
Subjects == {"S1", "S2"}

\* The subjects collection: subject id -> departmentId.
subjectDept(subjectId) == IF subjectId = "S1" THEN "D1" ELSE "D2"

NoTime == <<>>
T0800 == <<8, 0>>
T0830 == <<8, 30>>
T0900 == <<9, 0>>

daysOfWeek ==
    <<"Monday", "Tuesday", "Wednesday", "Thursday", "Friday", "Saturday", "Sunday">>

\* ---------------------------------------------------------------- helpers

includes(arr, x) == \E i \in 1..Len(arr) : arr[i] = x

timeToMinutes(timeStr) == timeStr[1] * 60 + timeStr[2]

\* hasConflict with the time test made closed (touching windows collide).
hasConflict_closed(newSch, schedules) ==
    LET newStart == timeToMinutes(newSch.startTime)
        newEnd == timeToMinutes(newSch.endTime)
    IN \E d \in 1..Len(newSch.days) : \E k \in 1..Len(schedules) :
          LET sch == schedules[k]
              existingStart == timeToMinutes(sch.startTime)
              existingEnd == timeToMinutes(sch.endTime)
          IN /\ includes(sch.days, newSch.days[d])
             /\ \/ (sch.teacherId = newSch.teacherId
                    /\ newStart <= existingEnd /\ newEnd >= existingStart)
                \/ (sch.room = newSch.room
                    /\ newStart <= existingEnd /\ newEnd >= existingStart)

\* hasConflict without the room test.
hasConflict_teacherOnly(newSch, schedules) ==
    LET newStart == timeToMinutes(newSch.startTime)
        newEnd == timeToMinutes(newSch.endTime)
    IN \E d \in 1..Len(newSch.days) : \E k \in 1..Len(schedules) :
          LET sch == schedules[k]
              existingStart == timeToMinutes(sch.startTime)
              existingEnd == timeToMinutes(sch.endTime)
          IN /\ includes(sch.days, newSch.days[d])
             /\ sch.teacherId = newSch.teacherId
             /\ newStart < existingEnd /\ newEnd > existingStart

\* hasConflict without the `if (!sch.days.includes(day)) continue`.
hasConflict_anyDay(newSch, schedules) ==
    LET newStart == timeToMinutes(newSch.startTime)
        newEnd == timeToMinutes(newSch.endTime)
    IN \E d \in 1..Len(newSch.days) : \E k \in 1..Len(schedules) :
          LET sch == schedules[k]
              existingStart == timeToMinutes(sch.startTime)
              existingEnd == timeToMinutes(sch.endTime)
          IN \/ (sch.teacherId = newSch.teacherId
                 /\ newStart < existingEnd /\ newEnd > existingStart)
             \/ (sch.room = newSch.room
                 /\ newStart < existingEnd /\ newEnd > existingStart)

\* hasConflict with the first comparison of the time test made non-strict.
hasConflict_startClosed(newSch, schedules) ==
    LET newStart == timeToMinutes(newSch.startTime)
        newEnd == timeToMinutes(newSch.endTime)
    IN \E d \in 1..Len(newSch.days) : \E k \in 1..Len(schedules) :
          LET sch == schedules[k]
              existingStart == timeToMinutes(sch.startTime)
              existingEnd == timeToMinutes(sch.endTime)
          IN /\ includes(sch.days, newSch.days[d])
             /\ \/ (sch.teacherId = newSch.teacherId
                    /\ newStart <= existingEnd /\ newEnd > existingStart)
                \/ (sch.room = newSch.room
                    /\ newStart <= existingEnd /\ newEnd > existingStart)

\* hasConflict with the day looked for only at the head of sch.days.
hasConflict_firstDay(newSch, schedules) ==
    LET newStart == timeToMinutes(newSch.startTime)
        newEnd == timeToMinutes(newSch.endTime)
    IN \E d \in 1..Len(newSch.days) : \E k \in 1..Len(schedules) :
          LET sch == schedules[k]
              existingStart == timeToMinutes(sch.startTime)
              existingEnd == timeToMinutes(sch.endTime)
          IN /\ sch.days[1] = newSch.days[d]
             /\ \/ (sch.teacherId = newSch.teacherId
                    /\ newStart < existingEnd /\ newEnd > existingStart)
                \/ (sch.room = newSch.room
                    /\ newStart < existingEnd /\ newEnd > existingStart)

\* The boolean the two nested loops return: true at the first (day, schedule)
\* pair that passes one of the two tests, false when the loops run out.
hasConflict(newSch, schedules) ==
    LET newStart == timeToMinutes(newSch.startTime)
        newEnd == timeToMinutes(newSch.endTime)
    IN \E d \in 1..Len(newSch.days) : \E k \in 1..Len(schedules) :
          LET sch == schedules[k]
              existingStart == timeToMinutes(sch.startTime)
              existingEnd == timeToMinutes(sch.endTime)
          IN /\ includes(sch.days, newSch.days[d])
             /\ \/ (sch.teacherId = newSch.teacherId
                    /\ newStart < existingEnd /\ newEnd > existingStart)
                \/ (sch.room = newSch.room
                    /\ newStart < existingEnd /\ newEnd > existingStart)

\* schedules.filter(sch => sch.id !== editSchedule.id)
\* A variant of the filter that keeps the edited record in the list.
otherSchedules_all(schedules, editId) == schedules

otherSchedules(schedules, editId) ==
    SelectSeq(schedules, LAMBDA sch : sch.id # editId)

\* The inline loops of handleUpdateSchedule: "teacher" or "room" for the
\* warning raised at the first (day, schedule) pair that passes a test (the
\* teacher test comes first), "none" when the loops run out.
updateConflict(edit, schedules) ==
    LET others == otherSchedules(schedules, edit.id)
        newStart == timeToMinutes(edit.startTime)
        newEnd == timeToMinutes(edit.endTime)
        teacherHit(d, k) ==
            /\ includes(others[k].days, edit.days[d])
            /\ others[k].teacherId = edit.teacherId
            /\ newStart < timeToMinutes(others[k].endTime)
            /\ newEnd > timeToMinutes(others[k].startTime)
        roomHit(d, k) ==
            /\ includes(others[k].days, edit.days[d])
            /\ others[k].room = edit.room
            /\ newStart < timeToMinutes(others[k].endTime)
            /\ newEnd > timeToMinutes(others[k].startTime)
        hits == {p \in (1..Len(edit.days)) \X (1..Len(others)) :
                    teacherHit(p[1], p[2]) \/ roomHit(p[1], p[2])}
        before(p, q) == p[1] < q[1] \/ (p[1] = q[1] /\ p[2] <= q[2])
    IN IF hits = {} THEN "none"
       ELSE LET first == CHOOSE p \in hits : \A q \in hits : before(p, q)
            IN IF teacherHit(first[1], first[2]) THEN "teacher" ELSE "room"

\* ------------------------------------------------- the teacher's days text

\* The text typed into the teacher's "Days (comma separated)" input, as a
\* sequence of tokens: a word, a comma, a blank.  Only texts whose
\* comma-separated pieces hold at most one word are typed.
Comma == ","
Blank == " "

\* text.split(','): the pieces between the commas, at least one.
RECURSIVE splitComma(_)
splitComma(text) ==
    IF \A i \in 1..Len(text) : text[i] # Comma THEN <<text>>
    ELSE LET c == CHOOSE i \in 1..Len(text) :
                      text[i] = Comma /\ \A j \in 1..(i - 1) : text[j] # Comma
         IN <<SubSeq(text, 1, c - 1)>> \o splitComma(SubSeq(text, c + 1, Len(text)))

\* s.trim(): the piece without its leading and trailing blanks, as a string.
trim(piece) ==
    LET words == SelectSeq(piece, LAMBDA t : t # Blank)
    IN IF words = <<>> THEN "" ELSE words[1]

\* e.target.value.split(',').map((s) => s.trim())
parseDays(text) ==
    LET pieces == splitComma(text)
    IN [i \in 1..Len(pieces) |-> trim(pieces[i])]

\* ------------------------------------------------------------- the clients

Clients == {"m1", "m2", "t1"}

\* The role the dashboard hands to the component.
role(c) == IF c = "t1" THEN "teacher" ELSE IF c = "m1" THEN "registrar" ELSE "dept_head"

\* ROLES[role].canManageSchedule
canManageSchedule(r) == r \in {"admin", "registrar", "dept_head"}

\* currentUserId of the teacher's view.
currentUserId(c) == "T1"

Managers == {c \in Clients : canManageSchedule(role(c))}
TeacherViews == {c \in Clients : role(c) = "teacher"}

\* ------------------------------------------------------------------- state

VARIABLES
    online,         \* the clients whose view is open in this run
    store,          \* the 'schedules' collection, documents in id order
    nextId,         \* the id the store gives to the next added document
    writes,         \* store writes done so far (also the clock of createdAt)
    schedules,      \* per client: the schedules state (the local list)
    pending,        \* per client: snapshots in 500 ms timers, oldest first
    editSchedule,   \* per client: the record opened in the edit modal, or NoEdit
    call,           \* per client: the handler that is awaiting, or Idle
    dialog,         \* the dialog on screen (its kind), or NoDialog
    serial,         \* history: every handler so far ran alone, on a current list
    probe,          \* the detector harness: inputs and verdicts
    fetch           \* per client: the fetchData of the mount, or NoFetch

vars ==
    <<online, store, nextId, writes, schedules, pending, editSchedule, call, dialog,
      serial, probe, fetch>>

NoEdit == [id |-> 0]
Idle == [op |-> "idle"]
NoProbe == [on |-> FALSE]
NoDialog == ""
NoFetch == [op |-> "none"]

\* What the client's listener receives of the collection: all of it in the
\* manager view, the documents where teacherId == currentUserId in the
\* teacher's view.
listenerDocs(c, docs) ==
    IF role(c) = "teacher"
    THEN SelectSeq(docs, LAMBDA d : d.teacherId = currentUserId(c))
    ELSE docs

\* The views open together: two managers, or a manager and the teacher.
Sessions == {{"m1", "m2"}, {"m1", "t1"}}

\* The collection as the views find it when they open: empty, or holding one
\* session created earlier.
SeedStores ==
    {<<>>,
     <<[id |-> 1, subjectId |-> "S2", teacherId |-> "T2", room |-> "R1",
        days |-> <<"Monday">>, startTime |-> T0800, endTime |-> T0900,
        departmentId |-> "D2", createdAt |-> 0]>>}

\* The views have just opened: each list is still empty, and the listener's
\* first snapshot of a non-empty result is in its 500 ms timer.  The fetch of
\* the mount is left out here (the views are followed while it has not
\* answered); the feed below follows it.
Init ==
    /\ online \in Sessions
    /\ store \in SeedStores
    /\ nextId = Len(store) + 1
    /\ writes = 0
    /\ schedules = [c \in Clients |-> <<>>]
    /\ pending = [c \in Clients |->
                    IF c \in online /\ listenerDocs(c, store) # <<>>
                    THEN <<listenerDocs(c, store)>> ELSE <<>>]
    /\ editSchedule = [c \in Clients |-> NoEdit]
    /\ call = [c \in Clients |-> Idle]
    /\ dialog = NoDialog
    /\ serial = TRUE
    /\ fetch = [c \in Clients |-> NoFetch]
    /\ probe = NoProbe

\* ---------------------------------------------------------- the live feed

\* The newest snapshot the client has received.
latestSnapshot(c) ==
    IF pending[c] = <<>> THEN schedules[c] ELSE pending[c][Len(pending[c])]

\* onSnapshot fires on every client whose query result changed and starts a
\* 500 ms timer holding the snapshot.
notified(docs) ==
    [c \in Clients |->
        IF c \notin online \/ listenerDocs(c, docs) = latestSnapshot(c) THEN pending[c]
        ELSE Append(pending[c], listenerDocs(c, docs))]

\* A timer expires (equal delays expire in the order they were started):
\* setSchedules(snapshot.docs.map(...)).
applySnapshot(c) ==
    /\ dialog = NoDialog
    /\ pending[c] # <<>>
    /\ schedules' = [schedules EXCEPT ![c] = Head(pending[c])]
    /\ pending' = [pending EXCEPT ![c] = Tail(pending[c])]
    /\ UNCHANGED <<online, store, nextId, writes, editSchedule, call, dialog, serial, probe, fetch>>

\* ---------------------------------------------------------------- budgets

roomForSnapshots == \A c \in Clients : Len(pending[c]) < MaxPending

\* Writes and new documents the awaiting handlers may still ask for.
writesOf(cl) ==
    IF cl.op \in {"addDoc", "updateDoc", "deleteDoc", "confirm"} THEN 1
    ELSE IF cl.op = "perDay" THEN Len(cl.entry.days) - cl.k + 1
    ELSE IF cl.op = "bulkConfirm" THEN Cardinality(cl.ids)
    ELSE IF cl.op = "bulkDelete" THEN Cardinality(cl.left)
    ELSE 0
idsOf(cl) ==
    IF cl.op = "addDoc" THEN 1
    ELSE IF cl.op = "perDay" THEN Len(cl.entry.days) - cl.k + 1
    ELSE 0
reservedWrites == writesOf(call["m1"]) + writesOf(call["m2"]) + writesOf(call["t1"])
reservedIds == idsOf(call["m1"]) + idsOf(call["m2"]) + idsOf(call["t1"])
canWrite(n) == writes + reservedWrites + n <= MaxWrites
canAdd(n) == (nextId - 1) + reservedIds + n <= MaxIds

\* ------------------------------------------------------------ form inputs

\* A filled form of the manager view.
filled(subjectId, teacherId, room, days, startTime, endTime) ==
    [subjectId |-> subjectId, teacherId |-> teacherId, room |-> room,
     days |-> days, startTime |-> startTime, endTime |-> endTime]

\* The forms submitted with every field filled and start before end: the
\* first two share the teacher on Monday, the first and the third the room,
\* the last two nothing.
ValidForms ==
    {filled("S1", "T1", "R1", <<"Monday">>, T0800, T0830),
     filled("S1", "T1", "R2", <<"Monday", "Wednesday">>, T0800, T0900),
     filled("S2", "T2", "R1", <<"Monday">>, T0800, T0900)}

\* The forms submitted with a field left as the form opens, or with a start
\* that is not before the end.
RejectedForms ==
    {filled("S1", "T1", "R1", <<>>, T0800, T0900),
     filled("S1", "T1", "R1", <<"Monday">>, NoTime, T0900),
     filled("S1", "T1", "R1", <<"Monday">>, T0900, T0800),
     filled("S1", "T1", "R1", <<"Monday">>, T0800, T0800)}

NewScheduleInputs == ValidForms \cup RejectedForms

\* Texts typed into the teacher's days input: cleared, and the same weekday
\* twice.
DayTexts == {<<>>, <<"Monday", Comma, Blank, "Monday">>}

\* What the teacher's modal holds at Save: the room retyped, the times set
\* (also to a start after the end), the days left alone or retyped, the
\* subject retyped or cleared.
approveEdit(subjectId, room, retyped, daysText, startTime, endTime) ==
    [subjectId |-> subjectId, room |-> room, retyped |-> retyped,
     daysText |-> daysText, startTime |-> startTime, endTime |-> endTime]

ApproveEdits ==
    {approveEdit("S1", r, FALSE, <<>>, T0800, T0900) : r \in Rooms}
    \cup {approveEdit("S1", "R1", FALSE, <<>>, T0900, T0800)}
    \cup {approveEdit("S1", "R1", TRUE, t, T0800, T0900) : t \in DayTexts}
    \cup {approveEdit("", "R1", FALSE, <<>>, T0800, T0900)}

\* !x of a string field and of a time field
unset(x) == x = ""
unsetTime(t) == t = NoTime

\* Every handler so far started while no other handler was awaiting, on a
\* list (and, for an edit, a record) equal to what the store holds.
current(c) ==
    /\ \A c2 \in Clients : call[c2] = Idle
    /\ pending[c] = <<>>
    /\ schedules[c] = listenerDocs(c, store)
    /\ editSchedule[c] = NoEdit \/ \E k \in 1..Len(store) : store[k] = editSchedule[c]

\* ------------------------------------------- ScheduleManagement: create

\* A variant of the checks that leaves out the call of hasConflict.
createVerdict_unchecked(newSchedule, list) ==
    IF \/ unset(newSchedule.subjectId) \/ unset(newSchedule.teacherId)
       \/ unset(newSchedule.room) \/ Len(newSchedule.days) = 0
       \/ unsetTime(newSchedule.startTime) \/ unsetTime(newSchedule.endTime)
    THEN "fields"
    ELSE IF timeToMinutes(newSchedule.startTime) >= timeToMinutes(newSchedule.endTime)
    THEN "time"
    ELSE IF newSchedule.subjectId \notin Subjects THEN "subject"
    ELSE "ok"

\* The checks of handleCreateSchedule up to the try block, by the kind of the
\* dialog they end in: the warnings "fields", "time" and "conflict", the
\* error "subject", or "ok" when the handler goes on to write.
createVerdict(newSchedule, list) ==
    IF \/ unset(newSchedule.subjectId) \/ unset(newSchedule.teacherId)
       \/ unset(newSchedule.room) \/ Len(newSchedule.days) = 0
       \/ unsetTime(newSchedule.startTime) \/ unsetTime(newSchedule.endTime)
    THEN "fields"
    ELSE IF timeToMinutes(newSchedule.startTime) >= timeToMinutes(newSchedule.endTime)
    THEN "time"
    ELSE IF hasConflict(newSchedule, list) THEN "conflict"
    ELSE IF newSchedule.subjectId \notin Subjects THEN "subject"
    ELSE "ok"

\* The Add button of the one-record-per-request build, up to await addDoc.
handleCreateSchedule(c, newSchedule) ==
    /\ dialog = NoDialog
    /\ c \in Managers
    /\ call[c] = Idle
    /\ canWrite(1) /\ canAdd(1)
    /\ LET verdict == createVerdict(newSchedule, schedules[c]) IN
       IF verdict # "ok"
       THEN /\ dialog' = verdict
            /\ UNCHANGED <<call, serial>>
       ELSE /\ call' = [call EXCEPT ![c] =
                 [op |-> "addDoc",
                  data |-> [subjectId |-> newSchedule.subjectId,
                            teacherId |-> newSchedule.teacherId,
                            room |-> newSchedule.room,
                            days |-> newSchedule.days,
                            startTime |-> newSchedule.startTime,
                            endTime |-> newSchedule.endTime,
                            departmentId |-> subjectDept(newSchedule.subjectId),
                            createdAt |-> writes]]]
            /\ serial' = (serial /\ current(c))
            /\ UNCHANGED dialog
    /\ UNCHANGED <<online, store, nextId, writes, schedules, pending, editSchedule, probe, fetch>>

\* A variant of the catch blocks that issues the request again.
afterSettle_retry(cl, ok) == IF ok THEN Idle ELSE cl

\* The handler after its awaited write has settled: the try block runs to
\* its end or the catch block shows the error, and the handler returns.
afterSettle(cl, ok) == Idle

\* The document the store makes of added data.
docOf(id, data) ==
    [id |-> id, subjectId |-> data.subjectId, teacherId |-> data.teacherId,
     room |-> data.room, days |-> data.days, startTime |-> data.startTime,
     endTime |-> data.endTime, departmentId |-> data.departmentId,
     createdAt |-> data.createdAt]

\* A variant of the store that refuses an added document colliding with one
\* it holds.
addDocWrites_validating(data, ok) ==
    /\ ok
    /\ ~hasConflict(data, store)

\* Whether the store takes the added document: it does whenever the request
\* itself succeeds.
addDocWrites(data, ok) == ok

\* await addDoc(...) settles: the document is in the collection and the
\* listeners are notified, or the promise rejected.
addDocSettles(c, ok) ==
    /\ dialog = NoDialog
    /\ call[c].op = "addDoc"
    /\ IF addDocWrites(call[c].data, ok)
       THEN /\ roomForSnapshots
            /\ store' = Append(store, docOf(nextId, call[c].data))
            /\ nextId' = nextId + 1
            /\ writes' = writes + 1
            /\ pending' = notified(store')
            /\ dialog' = "success"
       ELSE /\ dialog' = "error"
            /\ UNCHANGED <<store, nextId, writes, pending>>
    /\ call' = [call EXCEPT ![c] = afterSettle(call[c], ok)]
    /\ UNCHANGED <<online, schedules, editSchedule, serial, probe, fetch>>

\* The Add button of the one-record-per-day build, up to the loop over the
\* days.  The closures the handler calls were made by the render of the
\* click, so hasConflict reads that render's list in every turn.
handleCreateSchedule_perDay(c, newSchedule) ==
    /\ dialog = NoDialog
    /\ c \in Managers
    /\ call[c] = Idle
    /\ canWrite(Len(newSchedule.days)) /\ canAdd(Len(newSchedule.days))
    /\ LET verdict == createVerdict(newSchedule, schedules[c]) IN
       IF verdict # "ok"
       THEN /\ dialog' = verdict
            /\ UNCHANGED <<call, serial>>
       ELSE /\ call' = [call EXCEPT ![c] =
                 [op |-> "perDay", entry |-> newSchedule, k |-> 1,
                  departmentId |-> subjectDept(newSchedule.subjectId),
                  closure |-> schedules[c], added |-> <<>>]]
            /\ serial' = (serial /\ current(c))
            /\ UNCHANGED dialog
    /\ UNCHANGED <<online, store, nextId, writes, schedules, pending, editSchedule, probe, fetch>>

\* One turn of the loop over the days: the day is skipped on a conflict,
\* else its record is added (or the add fails); after the last day the
\* handler reports success whatever the turns did.  The call keeps the days
\* whose addDoc has resolved so far.
perDayTurn(c, ok) ==
    /\ dialog = NoDialog
    /\ call[c].op = "perDay"
    /\ LET cl == call[c]
           day == cl.entry.days[cl.k]
           scheduleEntry == [cl.entry EXCEPT !.days = <<day>>]
           isLast == cl.k = Len(cl.entry.days)
           skip == hasConflict(scheduleEntry, cl.closure)
       IN
       /\ IF ~skip /\ ok
          THEN /\ roomForSnapshots
               /\ store' = Append(store,
                    docOf(nextId, [subjectId |-> scheduleEntry.subjectId,
                                   teacherId |-> scheduleEntry.teacherId,
                                   room |-> scheduleEntry.room,
                                   days |-> scheduleEntry.days,
                                   startTime |-> scheduleEntry.startTime,
                                   endTime |-> scheduleEntry.endTime,
                                   departmentId |-> cl.departmentId,
                                   createdAt |-> writes]))
               /\ nextId' = nextId + 1
               /\ writes' = writes + 1
               /\ pending' = notified(store')
          ELSE UNCHANGED <<store, nextId, writes, pending>>
       /\ dialog' = IF isLast THEN "success"
                    ELSE IF skip THEN "skipped"
                    ELSE IF ok THEN NoDialog ELSE "error"
       /\ call' = [call EXCEPT ![c] =
            IF isLast THEN Idle
            ELSE [cl EXCEPT !.k = cl.k + 1,
                            !.added = IF ~skip /\ ok THEN Append(cl.added, day)
                                      ELSE cl.added]]
    /\ UNCHANGED <<online, schedules, editSchedule, serial, probe, fetch>>

\* --------------------------------------------------------- the edit modal

\* The Edit button of a row: the modal opens on a copy of the listed record.
openEditModal(c, k) ==
    /\ dialog = NoDialog
    /\ call[c] = Idle
    /\ editSchedule[c] = NoEdit
    /\ k \in 1..Len(schedules[c])
    /\ editSchedule' = [editSchedule EXCEPT ![c] = schedules[c][k]]
    /\ UNCHANGED <<online, store, nextId, writes, schedules, pending, call, dialog,
                   serial, probe, fetch>>

\* The Cancel button of the modal.
closeEditModal(c) ==
    /\ dialog = NoDialog
    /\ call[c] = Idle
    /\ editSchedule[c] # NoEdit
    /\ editSchedule' = [editSchedule EXCEPT ![c] = NoEdit]
    /\ UNCHANGED <<online, store, nextId, writes, schedules, pending, call, dialog,
                   serial, probe, fetch>>

\* The six fields of the record as the modal shows them when it opens.
fieldsOf(sch) ==
    [subjectId |-> sch.subjectId, teacherId |-> sch.teacherId, room |-> sch.room,
     days |-> sch.days, startTime |-> sch.startTime, endTime |-> sch.endTime]

\* ------------------------------------------- ScheduleManagement: update

\* The checks of handleUpdateSchedule up to the try block, by the kind of the
\* dialog they end in ("teacher" and "room" are the two conflict warnings),
\* or "ok" when the handler goes on to write.
updateVerdict(edit, list) ==
    IF \/ unset(edit.subjectId) \/ unset(edit.teacherId)
       \/ unset(edit.room) \/ Len(edit.days) = 0
       \/ unsetTime(edit.startTime) \/ unsetTime(edit.endTime)
    THEN "fields"
    ELSE IF timeToMinutes(edit.startTime) >= timeToMinutes(edit.endTime)
    THEN "time"
    ELSE IF updateConflict(edit, list) # "none" THEN updateConflict(edit, list)
    ELSE "ok"

\* The Save button of the manager's modal, up to await updateDoc; form is
\* what handleEditChange has made of the six fields.
handleUpdateSchedule(c, form) ==
    /\ dialog = NoDialog
    /\ canWrite(1)
    /\ c \in Managers
    /\ call[c] = Idle
    /\ editSchedule[c] # NoEdit
    /\ LET edit == [id |-> editSchedule[c].id, subjectId |-> form.subjectId,
                    teacherId |-> form.teacherId, room |-> form.room,
                    days |-> form.days, startTime |-> form.startTime,
                    endTime |-> form.endTime]
           verdict == updateVerdict(edit, schedules[c])
       IN
       IF verdict # "ok"
       THEN /\ dialog' = verdict
            /\ UNCHANGED <<call, serial>>
       ELSE /\ call' = [call EXCEPT ![c] =
                 [op |-> "updateDoc", id |-> edit.id,
                  fields |-> [subjectId |-> edit.subjectId, teacherId |-> edit.teacherId,
                              room |-> edit.room, days |-> edit.days,
                              startTime |-> edit.startTime, endTime |-> edit.endTime]]]
            /\ serial' = (serial /\ current(c))
            /\ UNCHANGED dialog
    /\ UNCHANGED <<online, store, nextId, writes, schedules, pending, editSchedule, probe, fetch>>

\* ------------------------------------ ApproveScheduleManagement: update

\* The only check of the teacher's handleUpdateSchedule.
approveVerdict(edit) ==
    IF \/ unset(edit.subjectId) \/ unset(edit.room) \/ Len(edit.days) = 0
       \/ unsetTime(edit.startTime) \/ unsetTime(edit.endTime)
    THEN "fields"
    ELSE "ok"

\* The Save button of the teacher's modal, up to await updateDoc.  The days
\* are the opened record's array unless the days input was typed into.
handleUpdateSchedule_Approve(c, form) ==
    /\ dialog = NoDialog
    /\ canWrite(1)
    /\ c \in TeacherViews
    /\ call[c] = Idle
    /\ editSchedule[c] # NoEdit
    /\ LET edit == [subjectId |-> form.subjectId, room |-> form.room,
                    days |-> IF form.retyped THEN parseDays(form.daysText)
                             ELSE editSchedule[c].days,
                    startTime |-> form.startTime, endTime |-> form.endTime]
           verdict == approveVerdict(edit)
       IN
       IF verdict # "ok"
       THEN /\ dialog' = verdict
            /\ UNCHANGED <<call, serial>>
       ELSE /\ call' = [call EXCEPT ![c] =
                 [op |-> "updateDoc", id |-> editSchedule[c].id, fields |-> edit]]
            /\ serial' = (serial /\ current(c))
            /\ UNCHANGED dialog
    /\ UNCHANGED <<online, store, nextId, writes, schedules, pending, editSchedule, probe, fetch>>

\* ---------------------------------------------------------------- updateDoc

\* A variant of updateDoc that also sets the department to the one of the
\* subject written.
merged_rederived(d, fields) ==
    [f \in DOMAIN d |->
        IF f \in DOMAIN fields THEN fields[f]
        ELSE IF f = "departmentId" THEN subjectDept(fields.subjectId)
        ELSE d[f]]

\* updateDoc sets the named fields and leaves the others of the document.
merged(d, fields) ==
    [f \in DOMAIN d |-> IF f \in DOMAIN fields THEN fields[f] ELSE d[f]]

hasDoc(id) == \E k \in 1..Len(store) : store[k].id = id

\* await updateDoc(...) settles: the document has the new fields, the modal
\* closes and the listeners are notified; or the promise rejected (always so
\* when the document no longer exists) and the modal stays open.
updateDocSettles(c, ok) ==
    /\ dialog = NoDialog
    /\ call[c].op = "updateDoc"
    /\ IF ok /\ hasDoc(call[c].id)
       THEN /\ roomForSnapshots
            /\ store' = [k \in 1..Len(store) |->
                           IF store[k].id = call[c].id
                           THEN merged(store[k], call[c].fields) ELSE store[k]]
            /\ writes' = writes + 1
            /\ pending' = notified(store')
            /\ editSchedule' = [editSchedule EXCEPT ![c] = NoEdit]
            /\ dialog' = "success"
       ELSE /\ dialog' = "error"
            /\ UNCHANGED <<store, writes, pending, editSchedule>>
    /\ call' = [call EXCEPT ![c] = afterSettle(call[c], ok)]
    /\ UNCHANGED <<online, nextId, schedules, serial, probe, fetch>>

\* ------------------------------------------------------------------ delete

\* "Delete Selected" on one selected row of the list, or "Delete Schedule"
\* in the edit modal, up to the confirmation dialog.
handleDeleteSchedule(c, scheduleId) ==
    /\ dialog = NoDialog
    /\ c \in Managers
    /\ call[c] = Idle
    /\ \/ \E k \in 1..Len(schedules[c]) : schedules[c][k].id = scheduleId
       \/ editSchedule[c].id = scheduleId
    /\ canWrite(1)
    /\ call' = [call EXCEPT ![c] = [op |-> "confirm", id |-> scheduleId]]
    /\ serial' = (serial /\ current(c))
    /\ UNCHANGED <<online, store, nextId, writes, schedules, pending, editSchedule,
                   dialog, probe, fetch>>

\* The confirmation dialog closes: on "Yes, delete it!" the handler goes on
\* to await deleteDoc, otherwise it ends.
confirmSettles(c, isConfirmed) ==
    /\ dialog = NoDialog
    /\ call[c].op = "confirm"
    /\ call' = [call EXCEPT ![c] =
         IF isConfirmed THEN [op |-> "deleteDoc", id |-> call[c].id] ELSE Idle]
    /\ UNCHANGED <<online, store, nextId, writes, schedules, pending, editSchedule,
                   dialog, serial, probe, fetch>>

\* A variant of deleteDoc that removes the first document of the collection
\* whatever the id.
afterDelete_first(docs, id) == IF docs = <<>> THEN docs ELSE Tail(docs)

\* The collection after deleteDoc of the document with the id: the others
\* stay, and a collection without the document stays as it is.
afterDelete(docs, id) == SelectSeq(docs, LAMBDA d : d.id # id)

\* await deleteDoc(...) settles: the document is gone (deleting a document
\* that does not exist succeeds as well), or the promise rejected.
deleteDocSettles(c, ok) ==
    /\ dialog = NoDialog
    /\ call[c].op = "deleteDoc"
    /\ IF ok
       THEN /\ roomForSnapshots
            /\ store' = afterDelete(store, call[c].id)
            /\ writes' = writes + 1
            /\ pending' = notified(store')
            /\ dialog' = "success"
       ELSE /\ dialog' = "error"
            /\ UNCHANGED <<store, writes, pending>>
    /\ call' = [call EXCEPT ![c] = afterSettle(call[c], ok)]
    /\ UNCHANGED <<online, nextId, schedules, editSchedule, serial, probe, fetch>>

\* ------------------------------------------------------------- bulk delete

\* The ids of the rows of a list.
rowIds(list) == {list[k].id : k \in 1..Len(list)}

\* "Delete Selected" of the one-record-per-day build on the selected rows,
\* up to the confirmation dialog; with no row selected it only says so.
handleBulkDelete(c, ids) ==
    /\ dialog = NoDialog
    /\ c \in Managers
    /\ call[c] = Idle
    /\ ids \subseteq rowIds(schedules[c])
    /\ canWrite(Cardinality(ids))
    /\ IF ids = {}
       THEN /\ dialog' = "info"
            /\ UNCHANGED <<call, serial>>
       ELSE /\ call' = [call EXCEPT ![c] = [op |-> "bulkConfirm", ids |-> ids]]
            /\ serial' = (serial /\ current(c))
            /\ UNCHANGED dialog
    /\ UNCHANGED <<online, store, nextId, writes, schedules, pending, editSchedule,
                   probe, fetch>>

\* The confirmation dialog closes: on "Yes, delete them!" one deleteDoc per
\* selected row is started and the handler awaits them all.
bulkConfirmSettles(c, isConfirmed) ==
    /\ dialog = NoDialog
    /\ call[c].op = "bulkConfirm"
    /\ call' = [call EXCEPT ![c] =
         IF isConfirmed
         THEN [op |-> "bulkDelete", left |-> call[c].ids, rejected |-> FALSE]
         ELSE Idle]
    /\ UNCHANGED <<online, store, nextId, writes, schedules, pending, editSchedule,
                   dialog, serial, probe, fetch>>

\* One of the started deleteDoc calls settles.  Promise.all rejects at the
\* first rejection (the error dialog) and resolves when all have resolved
\* (the success dialog); the calls still out settle all the same.
bulkDeleteSettles(c, id, ok) ==
    /\ dialog = NoDialog
    /\ call[c].op = "bulkDelete"
    /\ id \in call[c].left
    /\ LET left == call[c].left \ {id}
           rejected == call[c].rejected \/ ~ok
       IN
       /\ IF ok
          THEN /\ roomForSnapshots
               /\ store' = afterDelete(store, id)
               /\ writes' = writes + 1
               /\ pending' = notified(store')
          ELSE UNCHANGED <<store, writes, pending>>
       /\ dialog' = IF ~ok /\ ~call[c].rejected THEN "error"
                    ELSE IF left = {} /\ ~rejected THEN "success"
                    ELSE NoDialog
       /\ call' = [call EXCEPT ![c] =
            IF left = {} THEN Idle
            ELSE [op |-> "bulkDelete", left |-> left, rejected |-> rejected]]
    /\ UNCHANGED <<online, nextId, schedules, editSchedule, serial, probe, fetch>>

\* -------------------------------------------------------------- the system

\* What the manager's modal holds at Save: the opened record untouched, or
\* one of the forms.
EditInputs(c) ==
    IF editSchedule[c] = NoEdit THEN {}
    ELSE NewScheduleInputs \cup {fieldsOf(editSchedule[c])}

\* The dialog on screen is dismissed.  Nothing else reads the dialog, so every
\* other step is taken with no dialog open.
closeDialog ==
    /\ dialog # NoDialog
    /\ dialog' = NoDialog
    /\ UNCHANGED <<online, store, nextId, writes, schedules, pending, editSchedule,
                   call, serial, probe, fetch>>

Next ==
    \/ closeDialog
    \/ \E c \in online : applySnapshot(c)
    \/ \E c \in online : \E newSchedule \in NewScheduleInputs :
          handleCreateSchedule(c, newSchedule)
    \/ \E c \in online : \E ok \in BOOLEAN : addDocSettles(c, ok)
    \/ \E c \in online : \E newSchedule \in NewScheduleInputs :
          handleCreateSchedule_perDay(c, newSchedule)
    \/ \E c \in online : \E ok \in BOOLEAN : perDayTurn(c, ok)
    \/ \E c \in online : \E k \in 1..MaxIds : openEditModal(c, k)
    \/ \E c \in online : closeEditModal(c)
    \/ \E c \in online : \E form \in EditInputs(c) : handleUpdateSchedule(c, form)
    \/ \E c \in online : \E form \in ApproveEdits : handleUpdateSchedule_Approve(c, form)
    \/ \E c \in online : \E ok \in BOOLEAN : updateDocSettles(c, ok)
    \/ \E c \in online : \E scheduleId \in 1..MaxIds : handleDeleteSchedule(c, scheduleId)
    \/ \E c \in online : \E isConfirmed \in BOOLEAN : confirmSettles(c, isConfirmed)
    \/ \E c \in online : \E ok \in BOOLEAN : deleteDocSettles(c, ok)
    \/ \E c \in online : \E ids \in SUBSET (1..MaxIds) : handleBulkDelete(c, ids)
    \/ \E c \in online : \E isConfirmed \in BOOLEAN : bulkConfirmSettles(c, isConfirmed)
    \/ \E c \in online : \E id \in 1..MaxIds : \E ok \in BOOLEAN :
          bulkDeleteSettles(c, id, ok)

Spec == Init /\ [][Next]_vars

\* A write or a confirmation dialog that client c awaits settles.  A client
\* has one call at a time, so one of the disjuncts at most is enabled.
Settle(c) ==
    \/ \E ok \in BOOLEAN : addDocSettles(c, ok)
    \/ \E ok \in BOOLEAN : perDayTurn(c, ok)
    \/ \E ok \in BOOLEAN : updateDocSettles(c, ok)
    \/ \E isConfirmed \in BOOLEAN : confirmSettles(c, isConfirmed)
    \/ \E ok \in BOOLEAN : deleteDocSettles(c, ok)
    \/ \E isConfirmed \in BOOLEAN : bulkConfirmSettles(c, isConfirmed)
    \/ \E id \in 1..MaxIds : \E ok \in BOOLEAN : bulkDeleteSettles(c, id, ok)

\* The store answers every request, every confirmation dialog is answered
\* and every dialog is dismissed.  A settling is strongly fair because
\* nothing in the program holds it back while a dialog of another handler is
\* open.
Fairness ==
    /\ WF_vars(closeDialog)
    /\ \A c \in Clients : SF_vars(Settle(c))

SpecLive == Spec /\ Fairness

\* ------------------------------------------------ the fetch of the mount

\* The views have just opened and the manager views have called fetchData.
FeedInit ==
    /\ online \in Sessions
    /\ store \in SeedStores
    /\ nextId = Len(store) + 1
    /\ writes = 0
    /\ schedules = [c \in Clients |-> <<>>]
    /\ pending = [c \in Clients |->
                    IF c \in online /\ listenerDocs(c, store) # <<>>
                    THEN <<listenerDocs(c, store)>> ELSE <<>>]
    /\ editSchedule = [c \in Clients |-> NoEdit]
    /\ call = [c \in Clients |-> Idle]
    /\ dialog = NoDialog
    /\ serial = TRUE
    /\ probe = NoProbe
    /\ fetch = [c \in Clients |->
                  IF c \in online /\ c \in Managers THEN [op |-> "called"] ELSE NoFetch]

\* getDocs(collection(db, 'schedules')), the fourth request of fetchData, is
\* answered from the collection as it is then; the answer is on its way.
getDocsRead(c) ==
    /\ dialog = NoDialog
    /\ fetch[c].op = "called"
    /\ fetch' = [fetch EXCEPT ![c] = [op |-> "read", docs |-> store]]
    /\ UNCHANGED <<online, store, nextId, writes, schedules, pending, editSchedule,
                   call, dialog, serial, probe>>

\* The await of fetchData returns: setSchedules(scheduleSnapshot.docs.map(...))
\* at once, with no timer; or a request was rejected and the catch block
\* shows 'Failed to load schedule data'.
fetchSettles(c, ok) ==
    /\ dialog = NoDialog
    /\ fetch[c].op = "read"
    /\ IF ok
       THEN /\ schedules' = [schedules EXCEPT ![c] = fetch[c].docs]
            /\ UNCHANGED dialog
       ELSE /\ dialog' = "error"
            /\ UNCHANGED schedules
    /\ fetch' = [fetch EXCEPT ![c] = [op |-> "done"]]
    /\ UNCHANGED <<online, store, nextId, writes, pending, editSchedule,
                   call, serial, probe>>

FeedNext ==
    \/ Next
    \/ \E c \in online : getDocsRead(c)
    \/ \E c \in online : \E ok \in BOOLEAN : fetchSettles(c, ok)

\* A step of the fetch of client c.
FetchStep(c) == getDocsRead(c) \/ \E ok \in BOOLEAN : fetchSettles(c, ok)

\* Besides the answers of the store: every timer expires and every fetch is
\* answered, whatever dialog is open meanwhile.
FeedFairness ==
    /\ Fairness
    /\ \A c \in Clients : SF_vars(applySnapshot(c)) /\ SF_vars(FetchStep(c))

SpecFeed == FeedInit /\ [][FeedNext]_vars /\ FeedFairness

\* ----------------------------------------------------- the detector alone

\* The two conflict checks applied to a candidate and a list of existing
\* sessions drawn from bounded sets, apart from the handlers around them.
\* The candidate is given to T1 in R1; the existing sessions range over both
\* teachers and both rooms.
ProbeWindows == {<<T0800, T0830>>, <<T0830, T0900>>, <<T0800, T0900>>}
ProbeCandidateDays == {<<"Monday">>, <<"Wednesday">>, <<"Wednesday", "Monday">>}
ProbeExistingDays == {<<"Monday">>, <<"Monday", "Wednesday">>}

ProbeCandidates ==
    {[id |-> e, subjectId |-> "S1", teacherId |-> "T1", room |-> "R1", days |-> d,
      startTime |-> w[1], endTime |-> w[2]] :
        e \in 0..1, d \in ProbeCandidateDays, w \in ProbeWindows}

ProbeExisting(id) ==
    {[id |-> id, subjectId |-> "S2", teacherId |-> t, room |-> r, days |-> d,
      startTime |-> w[1], endTime |-> w[2], departmentId |-> "D2", createdAt |-> 0] :
        t \in Teachers, r \in Rooms, d \in ProbeExistingDays, w \in ProbeWindows}

\* The lists of at most n existing sessions, ids in list order.
RECURSIVE ProbeLists(_)
ProbeLists(n) ==
    IF n = 0 THEN {<<>>}
    ELSE LET shorter == ProbeLists(n - 1) IN
         shorter \cup {Append(l, x) : l \in {m \in shorter : Len(m) = n - 1},
                                       x \in ProbeExisting(n)}

\* An existing session of T1 in R1 on Monday and Wednesday from 08:00 to
\* 09:00, and a candidate of T1 in R2 on Wednesday and Friday from 08:30 to
\* 09:30 (the form holds no id).
T0930 == <<9, 30>>
ScenarioA ==
    [newSch |-> [id |-> 0, subjectId |-> "S1", teacherId |-> "T1", room |-> "R2",
                 days |-> <<"Wednesday", "Friday">>,
                 startTime |-> T0830, endTime |-> T0930],
     schedules |-> <<[id |-> 1, subjectId |-> "S2", teacherId |-> "T1", room |-> "R1",
                      days |-> <<"Monday", "Wednesday">>,
                      startTime |-> T0800, endTime |-> T0900,
                      departmentId |-> "D2", createdAt |-> 0]>>]

\* No per-day create has run.
NoPlan == [warning |-> "none", added |-> <<>>, skipped |-> <<>>]

probeInput(newSch, list) ==
    [on |-> TRUE, newSch |-> newSch, schedules |-> list,
     phase |-> "input", created |-> FALSE, updated |-> "none", plan |-> NoPlan,
     forward |-> <<>>, swapped |-> <<>>, whole |-> FALSE, split |-> FALSE,
     others |-> FALSE]

ProbeInit ==
    /\ online = {}
    /\ store = <<>>
    /\ nextId = 1
    /\ writes = 0
    /\ schedules = [c \in Clients |-> <<>>]
    /\ pending = [c \in Clients |-> <<>>]
    /\ editSchedule = [c \in Clients |-> NoEdit]
    /\ call = [c \in Clients |-> Idle]
    /\ dialog = NoDialog
    /\ serial = TRUE
    /\ fetch = [c \in Clients |-> NoFetch]
    /\ \/ \E newSch \in ProbeCandidates : \E list \in ProbeLists(MaxExisting) :
             probe = probeInput(newSch, list)
       \/ probe = probeInput(ScenarioA.newSch, ScenarioA.schedules)

\* hasConflict(newSchedule) on the list, as handleCreateSchedule calls it.
probeCreate ==
    /\ probe.on /\ probe.phase = "input"
    /\ probe' = [probe EXCEPT !.phase = "create",
                              !.created = hasConflict(probe.newSch, probe.schedules)]
    /\ UNCHANGED <<online, store, nextId, writes, schedules, pending, editSchedule,
                   call, dialog, serial, fetch>>

\* The loops of handleUpdateSchedule on the list, the candidate being the
\* edit of the record whose id it carries (id 0 is no record of the list);
\* next to it, hasConflict on the candidate and the list without that record.
probeUpdate ==
    /\ probe.on /\ probe.phase = "input"
    /\ probe' = [probe EXCEPT
         !.phase = "update",
         !.updated = updateConflict(probe.newSch, probe.schedules),
         !.others = hasConflict(probe.newSch,
                                otherSchedules(probe.schedules, probe.newSch.id))]
    /\ UNCHANGED <<online, store, nextId, writes, schedules, pending, editSchedule,
                   call, dialog, serial, fetch>>

\* The candidate on the one day, as the loop of the per-day build forms it.
scheduleEntry(newSch, day) == [newSch EXCEPT !.days = <<day>>]

\* What the per-day build does with a filled candidate on a list: the check
\* of the whole candidate ends the handler with the one warning; past it,
\* each day is checked alone and is skipped or handed to addDoc.
perDayPlan(newSch, list) ==
    IF hasConflict(newSch, list)
    THEN [warning |-> "conflict", added |-> <<>>, skipped |-> <<>>]
    ELSE [warning |-> "none",
          added |-> SelectSeq(newSch.days,
                      LAMBDA day : ~hasConflict(scheduleEntry(newSch, day), list)),
          skipped |-> SelectSeq(newSch.days,
                      LAMBDA day : hasConflict(scheduleEntry(newSch, day), list))]

\* handleCreateSchedule of the per-day build on the list, its writes aside.
probeCreatePerDay ==
    /\ probe.on /\ probe.phase = "input"
    /\ probe' = [probe EXCEPT !.phase = "perDay",
                              !.plan = perDayPlan(probe.newSch, probe.schedules)]
    /\ UNCHANGED <<online, store, nextId, writes, schedules, pending, editSchedule,
                   call, dialog, serial, fetch>>

\* hasConflict on the candidate against each listed session alone, and on
\* that session as the candidate against the candidate as the one listed
\* session (the two created in the other order).
probeCreateSwapped ==
    /\ probe.on /\ probe.phase = "input"
    /\ probe' = [probe EXCEPT
         !.phase = "swapped",
         !.forward = [k \in 1..Len(probe.schedules) |->
                         hasConflict(probe.newSch, <<probe.schedules[k]>>)],
         !.swapped = [k \in 1..Len(probe.schedules) |->
                         hasConflict(probe.schedules[k], <<probe.newSch>>)]]
    /\ UNCHANGED <<online, store, nextId, writes, schedules, pending, editSchedule,
                   call, dialog, serial, fetch>>

\* The records the per-day build stores for the sessions of the list: one
\* for each day of each session, the other fields the same.
RECURSIVE perDayRecords(_)
perDayRecords(list) ==
    IF list = <<>> THEN <<>>
    ELSE [k \in 1..Len(Head(list).days) |->
             [Head(list) EXCEPT !.days = <<Head(list).days[k]>>]]
         \o perDayRecords(Tail(list))

\* hasConflict on the candidate against the list as the single-record build
\* stores it, and against the same sessions as the per-day build stores them.
probeCreateSplit ==
    /\ probe.on /\ probe.phase = "input"
    /\ probe' = [probe EXCEPT
         !.phase = "split",
         !.whole = hasConflict(probe.newSch, probe.schedules),
         !.split = hasConflict(probe.newSch, perDayRecords(probe.schedules))]
    /\ UNCHANGED <<online, store, nextId, writes, schedules, pending, editSchedule,
                   call, dialog, serial, fetch>>

ProbeNext ==
    \/ probeCreate
    \/ probeUpdate
    \/ probeCreatePerDay
    \/ probeCreateSwapped
    \/ probeCreateSplit

SpecProbe == ProbeInit /\ [][ProbeNext]_vars

\* ============================================================ the calendar
\* getEventsFromSchedule on its own.  A date is the number of days since
\* Monday 2024-01-01, a moment a date and a time of the day, and the clock
\* (moment()) is read once for every day of the session: a reading is the
\* date of the reading, its time of the day is overwritten by .set(...).

T1300 == <<13, 0>>
T1430 == <<14, 30>>

\* arr.indexOf(x): zero-based, -1 when x is no element.
indexOf(arr, x) ==
    IF includes(arr, x) THEN (CHOOSE i \in 1..Len(arr) : arr[i] = x) - 1 ELSE -1

\* m.startOf('isoWeek'): the Monday of the week of the date.
startOfIsoWeek(date) == date - (date % 7)

\* parseInt(timeStr.split(':')[0], 10) and parseInt(timeStr.split(':')[1], 10)
hourOf(timeStr) == timeStr[1]
minuteOf(timeStr) == timeStr[2]

\* A variant of the callback of the map that gives the event no id.
eventOf_anonymous(sch, day, now) ==
    LET weekStart == startOfIsoWeek(now)
        dayIndex == indexOf(daysOfWeek, day)
    IN [id |-> 0,
        start |-> [date |-> weekStart + dayIndex,
                   hour |-> hourOf(sch.startTime), minute |-> minuteOf(sch.startTime)],
        end |-> [date |-> weekStart + dayIndex,
                 hour |-> hourOf(sch.endTime), minute |-> minuteOf(sch.endTime)],
        sch |-> sch]

\* The callback of sch.days.map: the event of one day, the clock read at now.
eventOf(sch, day, now) ==
    LET weekStart == startOfIsoWeek(now)
        dayIndex == indexOf(daysOfWeek, day)
    IN [id |-> sch.id,
        start |-> [date |-> weekStart + dayIndex,
                   hour |-> hourOf(sch.startTime), minute |-> minuteOf(sch.startTime)],
        end |-> [date |-> weekStart + dayIndex,
                 hour |-> hourOf(sch.endTime), minute |-> minuteOf(sch.endTime)],
        sch |-> sch]

\* getEventsFromSchedule(sch), nows[k] being the clock reading of day k.
getEventsFromSchedule(sch, nows) ==
    [k \in 1..Len(sch.days) |-> eventOf(sch, sch.days[k], nows[k])]

\* The clock readings of one call that starts on the date: the call is
\* synchronous, so at most one midnight passes between two readings.
Readings(date, n) ==
    {[k \in 1..n |-> IF k < p THEN date ELSE date + 1] : p \in 2..(n + 1)}

\* Sessions the store can hold: day lists picked in the form, the list a
\* teacher typed as "Monday, Monday" and the one of an emptied day field.
EventDayLists ==
    {<<"Monday">>, <<"Tuesday", "Thursday">>, <<"Sunday", "Monday">>,
     parseDays(<<"Monday", Comma, Blank, "Monday">>), parseDays(<<>>)}
EventWindows == {<<T0800, T0900>>, <<T1300, T1430>>}
EventSessions ==
    {[id |-> id, subjectId |-> "S1", teacherId |-> "T1", room |-> "R1", days |-> d,
      startTime |-> w[1], endTime |-> w[2], departmentId |-> "D1", createdAt |-> 0] :
        id \in 1..MaxIds, d \in EventDayLists, w \in EventWindows}

EventsInit ==
    /\ online = {}
    /\ store = <<>>
    /\ nextId = 1
    /\ writes = 0
    /\ schedules = [c \in Clients |-> <<>>]
    /\ pending = [c \in Clients |-> <<>>]
    /\ editSchedule = [c \in Clients |-> NoEdit]
    /\ call = [c \in Clients |-> Idle]
    /\ dialog = NoDialog
    /\ serial = TRUE
    /\ fetch = [c \in Clients |-> NoFetch]
    /\ \E sch \in EventSessions : \E now \in 0..MaxClockDay :
          probe = [on |-> TRUE, sch |-> sch, now |-> now, phase |-> "input",
                   events |-> <<>>, nowAgain |-> now, again |-> <<>>]

\* A render: schedules.flatMap(getEventsFromSchedule) reaches the session.
getEvents ==
    /\ probe.on /\ probe.phase = "input"
    /\ \E nows \in Readings(probe.now, Len(probe.sch.days)) :
          probe' = [probe EXCEPT !.phase = "rendered",
                                 !.events = getEventsFromSchedule(probe.sch, nows)]
    /\ UNCHANGED <<online, store, nextId, writes, schedules, pending, editSchedule,
                   call, dialog, serial, fetch>>

\* A later render with the same session.
getEventsAgain ==
    /\ probe.on /\ probe.phase = "rendered"
    /\ \E later \in probe.now..MaxClockDay :
       \E nows \in Readings(later, Len(probe.sch.days)) :
          probe' = [probe EXCEPT !.phase = "again",
                                 !.nowAgain = later,
                                 !.again = getEventsFromSchedule(probe.sch, nows)]
    /\ UNCHANGED <<online, store, nextId, writes, schedules, pending, editSchedule,
                   call, dialog, serial, fetch>>

EventsNext == getEvents \/ getEventsAgain

SpecEvents == EventsInit /\ [][EventsNext]_vars

\* ================================================================ properties

\* The vocabulary of the properties, independent of the code's detector: the
\* minute of the day of a time, the window of a session, and when two
\* sessions collide.
minuteOfDay(t) == 60 * t[1] + t[2]
sharesDay(x, y) == \E i \in 1..Len(x.days) : \E j \in 1..Len(y.days) : x.days[i] = y.days[j]
overlaps(x, y) ==
    /\ minuteOfDay(x.startTime) < minuteOfDay(y.endTime)
    /\ minuteOfDay(x.endTime) > minuteOfDay(y.startTime)
abuts(x, y) ==
    \/ minuteOfDay(x.startTime) = minuteOfDay(y.endTime)
    \/ minuteOfDay(x.endTime) = minuteOfDay(y.startTime)
sameResource(x, y) == x.teacherId = y.teacherId \/ x.room = y.room
Collide(x, y) == sharesDay(x, y) /\ overlaps(x, y) /\ sameResource(x, y)
DoubleBooked(docs) ==
    \E i \in 1..Len(docs) : \E j \in 1..Len(docs) : i < j /\ Collide(docs[i], docs[j])

\* ---------------------------------------------------------------------- C1

\* C1, as stated: when every call so far ran one at a time (each finished
\* before the next started, each on a list equal to the store), no two
\* distinct persisted sessions share a weekday, overlap in time and have the
\* same instructor or the same room.
C1_ConflictFreeStore == serial => ~DoubleBooked(store)

\* ---------------------------------------------------------------------- C2

\* C2: a create whose candidate collides with a session of the list it is
\* validated against ends in the conflict warning with no write, the store
\* and the handler's state as before (a create step always leaves the store
\* alone and either opens a dialog or starts to await, so only such steps
\* are looked at); a create whose candidate collides
\* with none goes on to write, and every write the store accepts appends a
\* record holding the candidate (in the per-day build: the candidate on the
\* day of the turn, and no turn is skipped).
C2_CreateOutcomes ==
    [][\A c \in Managers :
        /\ (/\ call[c] = Idle /\ dialog = NoDialog /\ store' = store
            /\ (dialog' # NoDialog \/ call'[c] # Idle))
             => \A f \in ValidForms :
                  LET collides ==
                          \E k \in 1..Len(schedules[c]) : Collide(f, schedules[c][k])
                  IN
                  /\ ((handleCreateSchedule(c, f) \/ handleCreateSchedule_perDay(c, f))
                      /\ collides)
                       => (dialog' = "conflict" /\ writes' = writes /\ call'[c] = Idle)
                  /\ (handleCreateSchedule(c, f) /\ ~collides)
                       => (call'[c].op = "addDoc" /\ fieldsOf(call'[c].data) = f)
                  /\ (handleCreateSchedule_perDay(c, f) /\ ~collides)
                       => (/\ call'[c].op = "perDay"
                           /\ call'[c].entry = f /\ call'[c].k = 1)
        /\ (call[c].op = "addDoc" /\ addDocSettles(c, TRUE))
             => (/\ Len(store') = Len(store) + 1
                 /\ SubSeq(store', 1, Len(store)) = store
                 /\ fieldsOf(store'[Len(store')]) = fieldsOf(call[c].data))
        /\ (call[c].op = "perDay" /\ perDayTurn(c, TRUE))
             => (/\ Len(store') = Len(store) + 1
                 /\ SubSeq(store', 1, Len(store)) = store
                 /\ fieldsOf(store'[Len(store')])
                      = [call[c].entry EXCEPT !.days = <<call[c].entry.days[call[c].k]>>])
      ]_vars

\* A create was persisted and a later create ended in the conflict warning.
C2_Witness ==
    /\ dialog = "conflict"
    /\ \E k \in 1..Len(store) : store[k].subjectId = "S1"

\* ---------------------------------------------------------------------- C3

\* C3: the check of the create handler reports a conflict exactly when some
\* listed session collides with the candidate, and the check of the update
\* handler exactly when some listed session other than the edited one does;
\* so a session with another teacher and another room never counts.
C3_DetectorIff ==
    probe.on =>
        LET cand == probe.newSch
            list == probe.schedules
        IN
        /\ probe.phase = "create"
             => (probe.created <=> \E k \in 1..Len(list) : Collide(cand, list[k]))
        /\ probe.phase = "update"
             => ((probe.updated # "none")
                  <=> \E k \in 1..Len(list) : list[k].id # cand.id /\ Collide(cand, list[k]))

\* The update check passed although the edited session itself collides with
\* the candidate, next to a session of another teacher in another room on the
\* same day and window.
C3_Witness ==
    /\ probe.on /\ probe.phase = "update" /\ probe.updated = "none"
    /\ Len(probe.schedules) = 2
    /\ probe.schedules[1].id = probe.newSch.id
    /\ Collide(probe.newSch, probe.schedules[1])
    /\ sharesDay(probe.newSch, probe.schedules[2])
    /\ overlaps(probe.newSch, probe.schedules[2])

\* ---------------------------------------------------------------------- C4

\* C4: when every listed session's window only touches the candidate's
\* (one starts at the minute the other ends), neither check reports a
\* conflict, whatever the days, teachers and rooms.
C4_HalfOpen ==
    (probe.on /\ \A k \in 1..Len(probe.schedules) : abuts(probe.newSch, probe.schedules[k]))
        => (/\ probe.phase = "create" => ~probe.created
            /\ probe.phase = "update" => probe.updated = "none")

\* The create check passed on a list of two sessions that touch the
\* candidate, one of them of the same teacher in the same room on a shared
\* day.
C4_Witness ==
    /\ probe.on /\ probe.phase = "create" /\ ~probe.created
    /\ Len(probe.schedules) = 2
    /\ \A k \in 1..2 : abuts(probe.newSch, probe.schedules[k])
    /\ \E k \in 1..2 :
          /\ sharesDay(probe.newSch, probe.schedules[k])
          /\ probe.schedules[k].teacherId = probe.newSch.teacherId
          /\ probe.schedules[k].room = probe.newSch.room

\* ---------------------------------------------------------------------- C5

\* C5: when the candidate shares no weekday with any listed session,
\* neither check reports a conflict, whatever the times, teachers and rooms.
C5_DisjointDays ==
    (probe.on /\ \A k \in 1..Len(probe.schedules) : ~sharesDay(probe.newSch, probe.schedules[k]))
        => (/\ probe.phase = "create" => ~probe.created
            /\ probe.phase = "update" => probe.updated = "none")

\* The create check passed on a list of two sessions on other days, one of
\* them of the same teacher in the same room at an overlapping time.
C5_Witness ==
    /\ probe.on /\ probe.phase = "create" /\ ~probe.created
    /\ Len(probe.schedules) = 2
    /\ \A k \in 1..2 : ~sharesDay(probe.newSch, probe.schedules[k])
    /\ \E k \in 1..2 :
          /\ overlaps(probe.newSch, probe.schedules[k])
          /\ probe.schedules[k].teacherId = probe.newSch.teacherId
          /\ probe.schedules[k].room = probe.newSch.room

\* ---------------------------------------------------------------------- C6

\* C6, as stated: whenever an update handler, of the manager's view or of
\* the teacher's, goes on to write (in a run of one-at-a-time calls on
\* current lists), the record with the new fields merged in collides with
\* no other persisted session.
C6_UpdateValidated ==
    [][\A c \in Clients :
        (call[c] = Idle /\ call'[c].op = "updateDoc" /\ serial')
            => LET X == merged(editSchedule[c], call'[c].fields) IN
               \A k \in 1..Len(store) : store[k].id # X.id => ~Collide(X, store[k])
      ]_vars

\* ---------------------------------------------------------------------- C7

\* A session as the create handler lets it through: at least one day and a
\* start before the end.
wellFormed(x) ==
    /\ Len(x.days) > 0
    /\ minuteOfDay(x.startTime) < minuteOfDay(x.endTime)

\* C7, as stated: Save on the untouched modal of a persisted session always
\* goes on to write.
C7_SameValuesAlwaysAccepted ==
    [][\A c \in Managers :
        (/\ editSchedule[c] # NoEdit
         /\ \E k \in 1..Len(store) : store[k] = editSchedule[c]
         /\ handleUpdateSchedule(c, fieldsOf(editSchedule[c])))
            => call'[c].op = "updateDoc"
      ]_vars

\* C7, amended: Save on the untouched modal of a session X goes on to write
\* X's own fields whenever X is well formed and no other listed session
\* collides with it (X itself, though listed, is left out of the
\* comparison); and when the store accepts a write of the fields the
\* document already has, the store is afterwards what it was.
C7_SameValuesAccepted ==
    [][\A c \in Managers :
        /\ (/\ editSchedule[c] # NoEdit
            /\ wellFormed(editSchedule[c])
            /\ \A k \in 1..Len(schedules[c]) :
                  schedules[c][k].id # editSchedule[c].id
                      => ~Collide(editSchedule[c], schedules[c][k])
            /\ handleUpdateSchedule(c, fieldsOf(editSchedule[c])))
               => (/\ call'[c].op = "updateDoc"
                   /\ call'[c].id = editSchedule[c].id
                   /\ call'[c].fields = fieldsOf(editSchedule[c]))
        /\ (/\ call[c].op = "updateDoc"
            /\ \E k \in 1..Len(store) :
                  store[k].id = call[c].id /\ fieldsOf(store[k]) = call[c].fields
            /\ updateDocSettles(c, TRUE))
               => (store' = store /\ dialog' = "success")
      ]_vars

\* The manager's update of a listed, persisted session to the fields it has
\* is awaiting updateDoc.
C7_Witness ==
    \E c \in Managers :
        /\ call[c].op = "updateDoc"
        /\ \E k \in 1..Len(store) :
              /\ store[k].id = call[c].id
              /\ fieldsOf(store[k]) = call[c].fields
              /\ \E j \in 1..Len(schedules[c]) : schedules[c][j] = store[k]

\* ---------------------------------------------------------------------- C8

\* C8: a create that passed its check is persisted whenever the store
\* accepts the request, whatever the store holds by then: the write step
\* appending the record is always possible.
C8_WriteUnconditional ==
    \A c \in Managers :
        (dialog = NoDialog /\ call[c].op = "addDoc" /\ roomForSnapshots)
            => ENABLED (addDocSettles(c, TRUE) /\ Len(store') = Len(store) + 1)

\* Two managers are open, and the store holds two colliding sessions that
\* were both created (subject S1) by handlers that both ran their check
\* before either write (equal createdAt).
C8_Witness ==
    /\ online = {"m1", "m2"}
    /\ \E i \in 1..Len(store) : \E j \in 1..Len(store) :
          /\ i < j
          /\ store[i].subjectId = "S1" /\ store[j].subjectId = "S1"
          /\ store[i].createdAt = store[j].createdAt
          /\ Collide(store[i], store[j])

\* ---------------------------------------------------------------------- C9

\* C9, as stated: every persisted session has 0 <= start < end <= 1439 in
\* minutes of the day.
C9_ValidWindows ==
    \A k \in 1..Len(store) :
        /\ 0 <= minuteOfDay(store[k].startTime)
        /\ minuteOfDay(store[k].startTime) < minuteOfDay(store[k].endTime)
        /\ minuteOfDay(store[k].endTime) <= minuteOfDay(<<23, 59>>)

\* --------------------------------------------------------------------- C10

\* C10, as stated: every persisted session has a day list that is not
\* empty, has no duplicate and holds only the seven weekday tags.
C10_ValidDays ==
    \A k \in 1..Len(store) :
        LET days == store[k].days IN
        /\ Len(days) > 0
        /\ \A i \in 1..Len(days) : \A j \in 1..Len(days) : i # j => days[i] # days[j]
        /\ \A i \in 1..Len(days) : includes(daysOfWeek, days[i])

\* --------------------------------------------------------------------- C11

\* The documents of a collection, as a set.
docSet(docs) == {docs[k] : k \in 1..Len(docs)}

\* A step in which the deleteDoc that client c issued for the id settles.
deleteSettled(c, id) ==
    \/ /\ call[c].op = "deleteDoc"
       /\ call[c].id = id
       /\ call'[c] = Idle
    \/ /\ call[c].op = "bulkDelete"
       /\ id \in call[c].left
       /\ \/ call'[c] = Idle
          \/ call'[c].op = "bulkDelete" /\ id \notin call'[c].left

\* C11: a delete that the store accepts removes the document with the id
\* whatever the other documents are, a delete the store rejects removes
\* nothing, every other document stays exactly as it was, and a store
\* without a double booking stays without one.
C11_DeleteFrame ==
    [][\A c \in Clients : \A id \in 1..MaxIds :
          deleteSettled(c, id) =>
             /\ writes' # writes => \A d \in docSet(store') : d.id # id
             /\ writes' = writes => store' = store
             /\ \A d \in docSet(store) : d.id # id => d \in docSet(store')
             /\ docSet(store') \subseteq docSet(store)
             /\ ~DoubleBooked(store) => ~DoubleBooked(store')]_vars

\* A delete has removed the seeded document and the document created after
\* it is still there.
C11_Witness ==
    /\ dialog = "success"
    /\ writes = 2
    /\ Len(store) = 1
    /\ store[1].id = 2

\* --------------------------------------------------------------------- C12

\* A step in which the updateDoc that client c issued for the id settles.
updateSettled(c, id) ==
    /\ call[c].op = "updateDoc"
    /\ call[c].id = id
    /\ call'[c] = Idle

\* C12, as stated: an update or a delete of an id that is not in the store
\* ends in an error outcome and leaves the store unchanged; it never ends in
\* the success outcome.
C12_AbsentIdIsAnError ==
    [][\A c \in Clients : \A id \in 1..MaxIds :
          (~hasDoc(id) /\ (updateSettled(c, id) \/ deleteSettled(c, id)))
             => (dialog' = "error" /\ store' = store)]_vars

\* --------------------------------------------------------------------- C13

\* C13, as stated, on the last day of a multi-day create: when the create
\* ends on a day that was not persisted (the store took no write in the
\* closing turn), the outcome shown is not the overall success.
C13_PartialCreateReported ==
    [][\A c \in Managers :
          (/\ call[c].op = "perDay"
           /\ Len(call[c].entry.days) > 1
           /\ call'[c] = Idle
           /\ writes' = writes)
             => dialog' # "success"]_vars

\* --------------------------------------------------------------------- C14

\* C14, as stated, on what the checks hand back (the create check one
\* boolean, the update check at most one warning): as many conflicts are
\* reported as listed sessions collide with the candidate, one for each.
C14_OneRecordPerCollision ==
    probe.on =>
        LET cand == probe.newSch
            list == probe.schedules
        IN
        /\ probe.phase = "create"
             => (IF probe.created THEN 1 ELSE 0)
                  = Cardinality({k \in 1..Len(list) : Collide(cand, list[k])})
        /\ probe.phase = "update"
             => (IF probe.updated # "none" THEN 1 ELSE 0)
                  = Cardinality({k \in 1..Len(list) :
                                   list[k].id # cand.id /\ Collide(cand, list[k])})

\* --------------------------------------------------------------------- C15

\* C15, as stated, on the create of the per-day build in Scenario A: the
\* outcome tells the colliding day from the free one, so Wednesday is
\* reported as conflicting (skipped) and Friday as not conflicting (added).
C15_ScenarioA ==
    (/\ probe.on /\ probe.phase = "perDay"
     /\ probe.newSch = ScenarioA.newSch /\ probe.schedules = ScenarioA.schedules)
       => /\ probe.plan.skipped = <<"Wednesday">>
          /\ probe.plan.added = <<"Friday">>

\* --------------------------------------------------------------------- C16

\* C16: a render of a session yields as many events as the session has
\* days, the k-th for its k-th day, and every event carries the id of the
\* session (and the session itself).
C16_OnePerDay ==
    (probe.on /\ probe.phase = "rendered") =>
        /\ Len(probe.events) = Len(probe.sch.days)
        /\ \A k \in 1..Len(probe.events) :
              /\ probe.events[k].id = probe.sch.id
              /\ probe.events[k].sch = probe.sch
              /\ includes(daysOfWeek, probe.sch.days[k])
                   => daysOfWeek[(probe.events[k].start.date % 7) + 1] = probe.sch.days[k]

\* A session of two days has been rendered as two events of the same id on
\* two dates.
C16_Witness ==
    /\ probe.on /\ probe.phase = "rendered"
    /\ Len(probe.events) = 2
    /\ probe.events[1].id = probe.events[2].id
    /\ probe.events[1].start.date # probe.events[2].start.date

\* --------------------------------------------------------------------- C17

\* C17, as stated, the reference week being the week in which the render is
\* called: the event of each day starts on the Monday of that week plus the
\* day's index, an offset from 0 to 6, at the start time of the session, and
\* ends on the same date at its end time.
C17_MondayPlusIndex ==
    (probe.on /\ probe.phase = "rendered") =>
        \A k \in 1..Len(probe.events) :
            LET ev == probe.events[k]
                offset == ev.start.date - startOfIsoWeek(probe.now)
            IN
            /\ offset \in 0..6
            /\ daysOfWeek[offset + 1] = probe.sch.days[k]
            /\ <<ev.start.hour, ev.start.minute>> = probe.sch.startTime
            /\ ev.end.date = ev.start.date
            /\ <<ev.end.hour, ev.end.minute>> = probe.sch.endTime

\* --------------------------------------------------------------------- C18

\* C18, as stated: two renders of the same session called in the same week
\* yield the same events.
C18_Deterministic ==
    (/\ probe.on /\ probe.phase = "again"
     /\ startOfIsoWeek(probe.nowAgain) = startOfIsoWeek(probe.now))
       => probe.again = probe.events

\* --------------------------------------------------------------------- C19

\* C19: a document the store takes in carries the department of its subject,
\* and no step changes the departmentId or the createdAt of a document that
\* stays in the store, whoever writes and whatever subject is written.
C19_DepartmentFixed ==
    [][/\ \A d \in docSet(store') :
            (\A e \in docSet(store) : e.id # d.id)
               => d.departmentId = subjectDept(d.subjectId)
       /\ \A d \in docSet(store) : \A e \in docSet(store') :
            e.id = d.id => (e.departmentId = d.departmentId /\ e.createdAt = d.createdAt)
      ]_vars

\* An update has given a document a subject of another department than the
\* one the document carries.
C19_Witness ==
    /\ dialog = "success"
    /\ \E d \in docSet(store) : d.departmentId # subjectDept(d.subjectId)

\* --------------------------------------------------------------------- C20

\* C20, as stated: no step in which a call of a client with the teacher role
\* settles adds a document to the store or changes the subject, the room,
\* the days or the times of one.
C20_TeacherNeverWrites ==
    [][\A c \in Clients :
          (role(c) = "teacher" /\ call[c] # Idle /\ call'[c] # call[c])
             => /\ \A e \in docSet(store') : \E d \in docSet(store) : d.id = e.id
                /\ \A d \in docSet(store) : \A e \in docSet(store') :
                      e.id = d.id =>
                         /\ e.subjectId = d.subjectId
                         /\ e.room = d.room
                         /\ e.days = d.days
                         /\ e.startTime = d.startTime
                         /\ e.endTime = d.endTime]_vars

\* --------------------------------------------------------------------- C21

\* C21: the verdict of the check between a candidate and a listed session
\* is the same with the two in the other roles, and the overlap of two
\* windows (start before end) does not depend on which one is named first.
C21_Symmetric ==
    (probe.on /\ probe.phase = "swapped") =>
        /\ probe.forward = probe.swapped
        /\ \A k \in 1..Len(probe.schedules) :
              overlaps(probe.newSch, probe.schedules[k])
                <=> overlaps(probe.schedules[k], probe.newSch)

\* The check has run both ways on a colliding pair and on a pair whose
\* windows only touch.
C21_Witness ==
    /\ probe.on /\ probe.phase = "swapped"
    /\ Len(probe.schedules) = 2
    /\ probe.forward[1] /\ probe.swapped[1]
    /\ sameResource(probe.newSch, probe.schedules[2])
    /\ sharesDay(probe.newSch, probe.schedules[2])
    /\ abuts(probe.newSch, probe.schedules[2])
    /\ ~probe.swapped[2]

\* --------------------------------------------------------------------- C22

\* No handler is between its check and the end of its writes.
allIdle == \A c \in Clients : call[c] = Idle

\* C22, as stated: a create issued when every earlier call has completed and
\* at least one write has been made is checked against the store as it is at
\* that moment, so the candidate of an accepted create (one that goes on to
\* addDoc) collides with no document of the store.
C22_CheckedAgainstStore ==
    [][\A c \in Managers :
          (/\ allIdle /\ writes > 0
           /\ call'[c].op \in {"addDoc", "perDay"})
             => LET cand == IF call'[c].op = "addDoc" THEN call'[c].data
                            ELSE call'[c].entry
                IN \A d \in docSet(store) : ~Collide(cand, d)]_vars

\* --------------------------------------------------------------------- C23

\* The dialogs with which a create or an update handler returns before any
\* write.
Rejections == {"fields", "time", "conflict", "subject", "teacher", "room"}

\* C23, as stated, on the writes: a call that its handler rejects makes no
\* write, a call that went on to addDoc or updateDoc makes the one write
\* when it settles and nothing before, and a create of the per-day build
\* has, when it ends, written no more than one document in all (none when
\* the store refused the write).
C23_OneWritePerCall ==
    [][\A c \in Clients :
          /\ (call[c] = Idle /\ dialog' \in Rejections) => writes' = writes
          /\ (call[c] = Idle /\ call'[c] # Idle) => writes' = writes
          /\ (call[c].op = "perDay" /\ call'[c] = Idle /\ dialog' = "success")
               => Len(call[c].added) + (writes' - writes) <= 1]_vars

\* --------------------------------------------------------------------- C24

\* C24: the create check gives a candidate the same verdict against the
\* listed sessions stored one record a session and against the same
\* sessions stored one record a day.
C24_GranularityFree ==
    (probe.on /\ probe.phase = "split") => probe.whole = probe.split

\* The candidate was found to collide, both ways, on the second day of a
\* session of two days.
C24_Witness ==
    /\ probe.on /\ probe.phase = "split"
    /\ probe.whole /\ probe.split
    /\ Len(probe.schedules) = 1
    /\ Len(probe.schedules[1].days) = 2
    /\ probe.newSch.days = <<probe.schedules[1].days[2]>>

\* --------------------------------------------------------------------- C25

\* C25, as stated: the events of a rendered session come in the order of
\* the week, none on an earlier date than the one before it.
C25_CanonicalOrder ==
    (probe.on /\ probe.phase = "rendered") =>
        \A i \in 1..Len(probe.events) : \A j \in 1..Len(probe.events) :
            i < j => probe.events[i].start.date <= probe.events[j].start.date

\* --------------------------------------------------------------------- C26

\* C26: when the store answers and the dialogs are answered, every call
\* that has started comes to its end; the step in which an awaited write of
\* a create, an update or a delete settles ends the call and shows the
\* success or the error dialog, so no request is issued again.
C26_CallsEnd ==
    /\ \A c \in Clients : (call[c] # Idle) ~> (call[c] = Idle)
    /\ [][\A c \in Clients :
            (call[c].op \in {"addDoc", "updateDoc", "deleteDoc"} /\ call'[c] # call[c])
               => (call'[c] = Idle /\ dialog' \in {"success", "error"})]_vars

\* A call has ended in the error dialog with nothing written.
C26_Witness ==
    /\ dialog = "error"
    /\ allIdle
    /\ writes = 0

\* --------------------------------------------------------------------- C27

\* C27, as stated, on the per-day build: when a create ends, the days of the
\* candidate it has persisted are all of them or none.
C27_AllOrNothing ==
    [][\A c \in Managers :
          (call[c].op = "perDay" /\ call'[c] = Idle)
             => LET persisted == Len(call[c].added) + (writes' - writes)
                IN persisted = 0 \/ persisted = Len(call[c].entry.days)]_vars

\* --------------------------------------------------------------------- C28

\* C28: the loops written in the update handler raise one of their two
\* warnings exactly when hasConflict is true of the same candidate and the
\* same list without the edited session.
C28_UpdateAsCreate ==
    (probe.on /\ probe.phase = "update") =>
        ((probe.updated # "none") <=> probe.others)

\* Both checks reject an edit because of the room of another session, the
\* edited session itself being in the list and colliding with the edit.
C28_Witness ==
    /\ probe.on /\ probe.phase = "update"
    /\ probe.updated = "room" /\ probe.others
    /\ Len(probe.schedules) = 2
    /\ probe.schedules[1].id = probe.newSch.id
    /\ Collide(probe.newSch, probe.schedules[1])

\* --------------------------------------------------------------------- C29

\* C29, as stated: the writes being over, the list of every open manager
\* view comes to equal the collection and stays equal to it.
C29_ListConverges ==
    <>[](\A c \in online \cap Managers : schedules[c] = store)

\* --------------------------------------------------------------------- C30

====
